---- MODULE Spec2Model ----
(***************************************************************************)
(* PanoramaCapture ("paint the sphere" 360 capture): the capture session   *)
(* state machine, its coverage grid, the auto-capture and auto-finish      *)
(* effects and the stitch hand-off.                                        *)
(*                                                                         *)
(* Angles are fixed point, in hundredths of a degree (39 degrees = 3900),  *)
(* so that every offset the code computes (19.5, 29.25, 23.4, ...) is an   *)
(* integer.  Raw sensor angles, which the code receives in radians, are    *)
(* written in the same unit (the value a stands for a*pi/18000 rad), so    *)
(* the factor 180/pi of the listener is exact.  Rotation rates are in      *)
(* hundredths of a rad/s.  Times are in milliseconds.                      *)
(*                                                                         *)
(* One action is one JavaScript task: an event handler, a timer callback   *)
(* or the continuation of an await, together with the React re-render it   *)
(* causes and the effects that re-render runs (operator Render).           *)
(***************************************************************************)
EXTENDS Integers, Sequences, FiniteSets, TLC

\* ------------------------------------------------------------------------
\* Program constants
\* ------------------------------------------------------------------------
H_FOV == 6000
V_FOV == 8000
PHOTO_H_SPAN == (H_FOV * 65) \div 100
PHOTO_V_SPAN == (V_FOV * 65) \div 100
CELL_SIZE == 500
GRID_COLS == (36000 + CELL_SIZE - 1) \div CELL_SIZE
GRID_ROWS == (18000 + CELL_SIZE - 1) \div CELL_SIZE
TOTAL_CELLS == GRID_COLS * GRID_ROWS
\* 0.85, as a percentage
TARGET_COVERAGE == 85
\* 0.35 rad/s
STABILITY_THRESHOLD == 35
CAPTURE_COOLDOWN_MS == 700
MIN_PHOTOS_FINISH == 6

\* ------------------------------------------------------------------------
\* Bounds of the model
\* ------------------------------------------------------------------------
\* Largest number of photos in a request to the stitching server.
MaxUpload == 4
\* Number of poses of the sweep the user performs (see Path).
PathLen == 31
\* Number of poses of the second route the user may take (see SweepPath).
SweepLen == 7
\* Number of photos stamped in a run of GridSpec.
MaxStamps == 2
\* Granularity of the clock: time passes in steps of TimeStep ms.
TimeStep == 700
\* Pending auto-finish timers are counted up to MaxTimers ("MaxTimers or more").
MaxTimers == 1
\* handleRecalibrate is pressed only while the session has at most RecalLimit photos.
RecalLimit == 1
\* resetAll is pressed on a session of at most ResetLimit photos (abandoned
\* early) or on one that has reached the coverage target or is done.
ResetLimit == 1
\* Finish is pressed on a session of at most FinishLimit photos (as soon as
\* the button shows) or on one that has reached the coverage target.
FinishLimit == 6

\* ------------------------------------------------------------------------
\* Helpers
\* ------------------------------------------------------------------------
\* JavaScript's %: the sign of the result is the sign of the dividend.
JsMod(a, n) == IF a >= 0 THEN a % n ELSE -((-a) % n)

Min(a, b) == IF a < b THEN a ELSE b
Max(a, b) == IF a > b THEN a ELSE b

\* Shortest signed angle delta, result in [-180, 180).
angleDelta(from, to) == JsMod(JsMod(to - from, 36000) + 54000, 36000) - 18000

\* Mutant of toCell: the yaw is not wrapped into [0, 360) before flooring.
toCell_NoWrap(yaw, pitch) ==
    LET col == JsMod(JsMod(yaw, 36000) \div CELL_SIZE, GRID_COLS)
        row == (9000 - pitch) \div CELL_SIZE
    IN  [col |-> Max(0, Min(GRID_COLS - 1, col)),
         row |-> Max(0, Min(GRID_ROWS - 1, row))]

\* (yaw, pitch) to grid cell.
toCell(yaw, pitch) ==
    LET col == ((JsMod(JsMod(yaw, 36000) + 36000, 36000)) \div CELL_SIZE) % GRID_COLS
        row == (9000 - pitch) \div CELL_SIZE
    IN  [col |-> Max(0, Min(GRID_COLS - 1, col)),
         row |-> Max(0, Min(GRID_ROWS - 1, row))]

\* Index of a cell in the flat coverage buffer.
CellIndex(c) == c.row * GRID_COLS + c.col

\* The values of "for (d = -half; d <= half; d += CELL_SIZE)".
LoopOffsets(half) == { -half + CELL_SIZE * k : k \in 0..((2 * half) \div CELL_SIZE) }

\* The cells markCoverage sets for a photo at (yaw, pitch).
Footprint(yaw, pitch) ==
    { CellIndex(toCell(yaw + o[1], pitch + o[2])) :
        o \in { p \in LoopOffsets(PHOTO_H_SPAN \div 2) \X LoopOffsets(PHOTO_V_SPAN \div 2) :
                  ~(pitch + p[2] < -9000 \/ pitch + p[2] > 9000) } }

\* Mutant of markCoverage: the stamp replaces the buffer instead of adding to it.
markCoverage_Overwrite(grid, yaw, pitch) == Footprint(yaw, pitch)

\* Mutant of markCoverage: only the cell under the photo's centre is set.
markCoverage_CentreOnly(grid, yaw, pitch) == grid \cup {CellIndex(toCell(yaw, pitch))}

\* markCoverage: the grid after stamping a photo at (yaw, pitch).
markCoverage(grid, yaw, pitch) == grid \cup Footprint(yaw, pitch)

\* The count markCoverage passes to setCoverage (the ratio is count / TOTAL_CELLS).
CoverageCount(grid) == Cardinality(grid)

\* coverage >= TARGET_COVERAGE, for a coverage kept as its cell count.
ReachedTarget(cov) == cov * 100 >= TARGET_COVERAGE * TOTAL_CELLS

\* ------------------------------------------------------------------------
\* Frontier guides
\* ------------------------------------------------------------------------
Abs(a) == IF a < 0 THEN -a ELSE a

\* The eight probes around the last capture, in the order of the code.
Probes ==
    << [dx |-> (PHOTO_H_SPAN * 75) \div 100, dy |-> 0, dir |-> "right"],
       [dx |-> -((PHOTO_H_SPAN * 75) \div 100), dy |-> 0, dir |-> "left"],
       [dx |-> 0, dy |-> (PHOTO_V_SPAN * 75) \div 100, dir |-> "up"],
       [dx |-> 0, dy |-> -((PHOTO_V_SPAN * 75) \div 100), dir |-> "down"],
       [dx |-> (PHOTO_H_SPAN * 6) \div 10, dy |-> (PHOTO_V_SPAN * 6) \div 10, dir |-> "right"],
       [dx |-> -((PHOTO_H_SPAN * 6) \div 10), dy |-> (PHOTO_V_SPAN * 6) \div 10, dir |-> "left"],
       [dx |-> (PHOTO_H_SPAN * 6) \div 10, dy |-> -((PHOTO_V_SPAN * 6) \div 10), dir |-> "right"],
       [dx |-> -((PHOTO_H_SPAN * 6) \div 10), dy |-> -((PHOTO_V_SPAN * 6) \div 10), dir |-> "left"] >>

\* The guide a probe stands for.
ProbeGuide(lastP, p) ==
    [yaw |-> JsMod(JsMod(lastP.yaw + p.dx, 36000) + 36000, 36000),
     pitch |-> Max(-9000, Min(9000, lastP.pitch + p.dy)),
     direction |-> p.dir]

\* coverageGrid.current[row * GRID_COLS + col] for the cell of (yaw, pitch).
GuideCellCovered(grid, g) == CellIndex(toCell(g.yaw, g.pitch)) \in grid

\* Mutant of LocalGuides: the probes are pushed without looking at the grid.
LocalGuides_Unfiltered(lastP, grid) == [i \in 1..Len(Probes) |-> ProbeGuide(lastP, Probes[i])]

\* The first loop of computeFrontierGuides: the probes whose cell is uncovered.
LocalGuides(lastP, grid) ==
    LET Uncovered(g) == ~GuideCellCovered(grid, g)
    IN  SelectSeq([i \in 1..Len(Probes) |-> ProbeGuide(lastP, Probes[i])], Uncovered)

\* checkYaws x checkPitches in the order of the nested loops.
checkYaws == <<0, 4500, 9000, 13500, 18000, 22500, 27000, 31500>>
checkPitches == <<-6000, -3000, 0, 3000, 6000>>
Lattice ==
    [i \in 1..(Len(checkYaws) * Len(checkPitches)) |->
        [yaw |-> checkYaws[((i - 1) \div Len(checkPitches)) + 1],
         pitch |-> checkPitches[((i - 1) % Len(checkPitches)) + 1]]]

\* Mutant of ScanLattice: the global scan is left out.
ScanLattice_LocalOnly(i, guides, grid, yawNow) == guides

\* Mutant of ScanLattice: tooClose compares the yaws by their plain
\* difference instead of angleDelta.
RECURSIVE ScanLattice_PlainYaw(_, _, _, _)
ScanLattice_PlainYaw(i, guides, grid, yawNow) ==
    IF i > Len(Lattice) THEN guides
    ELSE LET c == Lattice[i]
             tooClose == \E j \in 1..Len(guides) :
                            /\ Abs(guides[j].yaw - c.yaw) < 3000
                            /\ Abs(guides[j].pitch - c.pitch) < 3000
             dYaw == angleDelta(yawNow, c.yaw)
             guide == [yaw |-> c.yaw, pitch |-> c.pitch,
                       direction |-> IF dYaw > 0 THEN "right" ELSE "left"]
             pushed == IF ~GuideCellCovered(grid, c) /\ ~tooClose
                       THEN Append(guides, guide) ELSE guides
         IN  IF Len(pushed) = Len(guides)
             THEN ScanLattice_PlainYaw(i + 1, guides, grid, yawNow)
             ELSE ScanLattice_PlainYaw(i + 1, pushed, grid, yawNow)

\* The second loop of computeFrontierGuides from lattice point i on.
RECURSIVE ScanLattice(_, _, _, _)
ScanLattice(i, guides, grid, yawNow) ==
    IF i > Len(Lattice) THEN guides
    ELSE LET c == Lattice[i]
             tooClose == \E j \in 1..Len(guides) :
                            /\ Abs(angleDelta(guides[j].yaw, c.yaw)) < 3000
                            /\ Abs(guides[j].pitch - c.pitch) < 3000
             dYaw == angleDelta(yawNow, c.yaw)
             guide == [yaw |-> c.yaw, pitch |-> c.pitch,
                       direction |-> IF dYaw > 0 THEN "right" ELSE "left"]
             pushed == IF ~GuideCellCovered(grid, c) /\ ~tooClose
                       THEN Append(guides, guide) ELSE guides
         IN  IF Len(pushed) = Len(guides)
             THEN ScanLattice(i + 1, guides, grid, yawNow)
             ELSE ScanLattice(i + 1, pushed, grid, yawNow)

\* computeFrontierGuides for the photo list ps, the grid and the current yaw.
computeFrontierGuides(ps, grid, yawNow) ==
    IF Len(ps) = 0 THEN <<>>
    ELSE ScanLattice(1, LocalGuides(ps[Len(ps)], grid), grid, yawNow)

\* ------------------------------------------------------------------------
\* The stitching server: POST /api/stitch-panorama and its Python script
\* ------------------------------------------------------------------------
\* An image is [id, w, h]: the set of uploads whose pixels it holds, and its size.  Orientations
\* are [yaw, pitch] in hundredths of a degree.
\* upload.array('photos', 12): the most 'photos' parts a request may carry.
maxCount == 12
\* The fewest images the endpoint and the script accept.
MinImages == 3
\* The 8-photo capture screen: photos of one session.
TOTAL_PHOTOS == 8
MaxSide == 1600
target_w == 4096
target_h == 2048
NoImage == [id |-> {}, w |-> 0, h |-> 0]

\* Python's round(num / den): to the nearest integer, ties to the even one.
PyRound(num, den) ==
    LET q == num \div den
        r == num % den
    IN  IF 2 * r < den THEN q
        ELSE IF 2 * r > den THEN q + 1
        ELSE IF q % 2 = 0 THEN q ELSE q + 1

\* round(ori.get('pitch', 0) / 30) * 30
PitchBucket(ori) == PyRound(ori.pitch, 3000) * 3000

\* The sort key (round(pitch / 30), yaw) of a (path, orientation) pair.
SortKeyLess(a, b) ==
    \/ PyRound(a.ori.pitch, 3000) < PyRound(b.ori.pitch, 3000)
    \/ /\ PyRound(a.ori.pitch, 3000) = PyRound(b.ori.pitch, 3000)
       /\ a.ori.yaw < b.ori.yaw

\* paired.sort(key = ...): a stable sort.
RECURSIVE InsertPaired(_, _)
InsertPaired(x, s) ==
    IF s = <<>> THEN <<x>>
    ELSE IF SortKeyLess(x, Head(s)) THEN <<x>> \o s
    ELSE <<Head(s)>> \o InsertPaired(x, Tail(s))

RECURSIVE SortPaired(_, _)
SortPaired(s, k) == IF k = 0 THEN <<>> ELSE InsertPaired(s[k], SortPaired(s, k - 1))

\* list(zip(paths, orientations)), sorted.
PairedSorted(paths, orientations) ==
    LET n == Min(Len(paths), Len(orientations))
    IN  SortPaired([i \in 1..n |-> [img |-> paths[i], ori |-> orientations[i]]], n)

\* The scale-down of a loaded image whose longer side exceeds MaxSide.
ScaleDown(img) ==
    LET m == Max(img.w, img.h)
    IN  IF m > MaxSide
        THEN [id |-> img.id,
              w |-> (2 * img.w * MaxSide + m) \div (2 * m),
              h |-> (2 * img.h * MaxSide + m) \div (2 * m)]
        ELSE img

\* What a successful cv2 Stitcher run over the images returns: a panorama as
\* wide as the images side by side and as high as the highest of them.
RECURSIVE SumW(_)
SumW(imgs) == IF imgs = <<>> THEN 0 ELSE Head(imgs).w + SumW(Tail(imgs))
RECURSIVE SumH(_)
SumH(imgs) == IF imgs = <<>> THEN 0 ELSE Head(imgs).h + SumH(Tail(imgs))
RECURSIVE MaxW(_)
MaxW(imgs) == IF imgs = <<>> THEN 0 ELSE Max(Head(imgs).w, MaxW(Tail(imgs)))
RECURSIVE MaxH(_)
MaxH(imgs) == IF imgs = <<>> THEN 0 ELSE Max(Head(imgs).h, MaxH(Tail(imgs)))
StitchedPano(imgs) ==
    [id |-> UNION { imgs[i].id : i \in DOMAIN imgs }, w |-> SumW(imgs), h |-> MaxH(imgs)]

\* Mutant of RowStrip: a row whose stitch fails contributes nothing.
RowStrip_DropOnFailure(bucket, rowImgs, ok) ==
    IF Len(rowImgs) = 1
    THEN <<[bucket |-> bucket, kind |-> "photo", image |-> rowImgs[1]]>>
    ELSE IF ok THEN <<[bucket |-> bucket, kind |-> "stitch", image |-> StitchedPano(rowImgs)]>>
    ELSE <<>>

\* The body of try_row_stitch's loop: what the row of one bucket appends to
\* stitched_rows.  ok: the outcome of stitcher.stitch(row_imgs).
RowStrip(bucket, rowImgs, ok) ==
    IF Len(rowImgs) = 1
    THEN <<[bucket |-> bucket, kind |-> "photo", image |-> rowImgs[1]]>>
    ELSE IF ok THEN <<[bucket |-> bucket, kind |-> "stitch", image |-> StitchedPano(rowImgs)]>>
    ELSE <<[bucket |-> bucket, kind |-> "first", image |-> rowImgs[1]]>>

\* The row keys in ascending order: sorted(rows.keys()) without reverse.
RECURSIVE Descending_Ascending(_)
Descending_Ascending(S) ==
    IF S = {} THEN <<>>
    ELSE LET low == CHOOSE x \in S : \A y \in S : x <= y
         IN  <<low>> \o Descending_Ascending(S \ {low})

\* sorted(rows.keys(), reverse=True)
RECURSIVE Descending(_)
Descending(S) ==
    IF S = {} THEN <<>>
    ELSE LET top == CHOOSE x \in S : \A y \in S : y <= x
         IN  <<top>> \o Descending(S \ {top})

\* stitched_rows for the buckets of the sequence, in order.
RECURSIVE StitchedRows(_, _, _)
StitchedRows(buckets, paired, okBuckets) ==
    IF buckets = <<>> THEN <<>>
    ELSE LET InRow(p) == PitchBucket(p.ori) = Head(buckets)
             row == SelectSeq(paired, InRow)
         IN  RowStrip(Head(buckets), [i \in DOMAIN row |-> row[i].img], Head(buckets) \in okBuckets)
               \o StitchedRows(Tail(buckets), paired, okBuckets)

\* "Normalize widths": every strip narrower than max_w is resized to
\* (max_w, int(h * max_w / w)); the list handed to np.vstack.
NormalizeWidths(strips) ==
    LET imgs == [i \in DOMAIN strips |-> strips[i].image]
        max_w == MaxW(imgs)
    IN  [i \in DOMAIN imgs |->
           IF imgs[i].w # max_w
           THEN [id |-> imgs[i].id, w |-> max_w, h |-> (imgs[i].h * max_w) \div imgs[i].w]
           ELSE imgs[i]]

\* "Normalize widths and stack vertically".
StackRows(strips) ==
    LET resized == NormalizeWidths(strips)
    IN  [id |-> UNION { resized[i].id : i \in DOMAIN resized },
         w |-> MaxW(resized), h |-> SumH(resized)]

\* try_row_stitch: the combined image (NoImage for None) and the strips.
\* okBuckets: the buckets whose row the stitcher manages to stitch.
try_row_stitch(images, orientations, okBuckets) ==
    IF orientations = <<>> \/ Len(orientations) # Len(images)
    THEN [image |-> NoImage, strips |-> <<>>, stacked |-> <<>>]
    ELSE LET paired == [i \in DOMAIN images |-> [img |-> images[i], ori |-> orientations[i]]]
             buckets == { PitchBucket(orientations[i]) : i \in DOMAIN orientations }
             strips == StitchedRows(Descending(buckets), paired, okBuckets)
         IN  [image |-> IF strips = <<>> THEN NoImage ELSE StackRows(strips),
              strips |-> strips, stacked |-> NormalizeWidths(strips)]

\* "Crop black borders": the bounding box of the largest contour.
Crop(pano, trim) == [id |-> pano.id, w |-> pano.w - trim.x, h |-> pano.h - trim.y]

\* cv2.resize(pano, (w, h))
Resize(pano, w, h) == [id |-> pano.id, w |-> w, h |-> h]

\* stitch_equirectangular.  wholeOk: the outcome of stitcher.stitch(images).
\* The result: ok (exit code 0), the image written to the output path, whether
\* the fallback ran, and its strips.
stitch_equirectangular(paths, orientations, wholeOk, okBuckets, trim) ==
    LET sorted == PairedSorted(paths, orientations)
        spaths == IF orientations # <<>> THEN [i \in DOMAIN sorted |-> sorted[i].img] ELSE paths
        soris == IF orientations # <<>> THEN [i \in DOMAIN sorted |-> sorted[i].ori] ELSE <<>>
        images == [i \in DOMAIN spaths |-> ScaleDown(spaths[i])]
        rows == try_row_stitch(images, soris, okBuckets)
        pano == IF wholeOk THEN StitchedPano(images) ELSE rows.image
    IN  IF pano = NoImage
        THEN [ok |-> FALSE, output |-> NoImage, fallback |-> ~wholeOk, strips |-> <<>>,
              stacked |-> <<>>, paths |-> spaths, orientations |-> soris]
        ELSE [ok |-> TRUE, output |-> Resize(Crop(pano, trim), target_w, target_h),
              fallback |-> ~wholeOk, strips |-> IF wholeOk THEN <<>> ELSE rows.strips,
              stacked |-> IF wholeOk THEN <<>> ELSE rows.stacked,
              paths |-> spaths, orientations |-> soris]

\* ------------------------------------------------------------------------
\* State
\* ------------------------------------------------------------------------
VARIABLES
    phase,          \* 'ready' | 'capturing' | 'processing' | 'done'
    photos,         \* CapturedPhoto[]: records [id, yaw, pitch, roll, timestamp]
    isSnapping,     \* the capture-in-flight flag
    resultUri,      \* TRUE iff resultUri is not null
    coverageGrid,   \* coverageGrid.current, as the set of indices that hold true
    coverage,       \* the coverage state, as its numerator (covered cells)
    yawRef, pitchRef, rollRef,
    rateRef,        \* [a, b]
    startRef,       \* NoStart (null) or [alpha, beta]
    sinceLast,      \* Date.now() - lastCaptureTs.current, saturated at SinceCap
    photoIdRef,
    inflight,       \* the takePictureAsync calls that have not settled yet: records
                    \* [auto, stale], history of how and in which session each began
    timers,         \* pending setTimeout(() => setPhase('processing'), 800) callbacks
    stitches,       \* the handleStitch calls that have not settled yet
    pose,           \* environment: where on Path the device is
    sinceAuto,      \* history: ms since an auto-capture last started, saturated at
                    \* CAPTURE_COOLDOWN_MS
    server,         \* the stitching server's handling of one request (see ServerIdle)
    upload,         \* a call of a client upload function (see UploadIdle)
    create          \* the 8-photo capture screen, CreateScreen (see CreateIdle)

vars == <<phase, photos, isSnapping, resultUri, coverageGrid, coverage, yawRef,
          pitchRef, rollRef, rateRef, startRef, sinceLast, photoIdRef, inflight,
          timers, stitches, pose, sinceAuto, server, upload, create>>

NoStart == [alpha |-> -1, beta |-> -1]

\* Elapsed times at or beyond SinceCap are not told apart: every comparison the
\* code makes is against CAPTURE_COOLDOWN_MS, which is below SinceCap.
SinceCap == CAPTURE_COOLDOWN_MS + TimeStep

\* ------------------------------------------------------------------------
\* Environment: the device's motion
\* ------------------------------------------------------------------------
\* The user takes one of two routes.  On the first the sphere is swept ring by
\* ring, ten headings 36 degrees apart on each ring: poses 0..PathLen-1.  On
\* the second the device is held upright and turned in steps of 60 degrees
\* along the horizon, and then tilted back 5 degrees past flat (beta < 0):
\* poses PathLen..PathLen+SweepLen-1.  Path(k) is the raw rotation sample at
\* pose k.
RingBeta == <<7600, 2600, 12600, 15600>>
RingPath(k) == [alpha |-> (10000 + 36000 * 4 - 3600 * k) % 36000,
                beta  |-> RingBeta[((k \div 10) % 4) + 1],
                gamma |-> 100 * ((k \div 10) % 4)]
SweepPath(j) == IF j < 6 THEN [alpha |-> (36000 - 6000 * j) % 36000, beta |-> 9000, gamma |-> 0]
                         ELSE [alpha |-> 0, beta |-> -500, gamma |-> 0]
Path(k) == IF k >= PathLen THEN SweepPath(k - PathLen) ELSE RingPath(k)

\* First pose, and one past the last pose, of the route pose k is on.
RouteStart(k) == IF k >= PathLen THEN PathLen ELSE 0
RouteEnd(k) == IF k >= PathLen THEN PathLen + SweepLen ELSE PathLen

\* The rotation rates the sample at pose k may carry: still, or turning on one
\* axis (at exactly the threshold on beta, above it on alpha).
Rates(k) == { [a |-> 0, b |-> 0],
              IF k % 2 = 0 THEN [a |-> 0, b |-> STABILITY_THRESHOLD]
                           ELSE [a |-> STABILITY_THRESHOLD + 25, b |-> 0] }

\* ------------------------------------------------------------------------
\* Effects
\* ------------------------------------------------------------------------
\* The CameraView (and so cameraRef.current) exists on the capture screen only:
\* the render returns early for 'ready', for 'done' with a result, and for
\* 'processing'.
CaptureScreen(ph, uri) == ph = "capturing" \/ (ph = "done" /\ ~uri)

\* The five field-of-view samples of the auto-capture effect.
FovSamples == { <<0, 0>>, <<(H_FOV * 3) \div 10, 0>>, <<-((H_FOV * 3) \div 10), 0>>,
                <<0, (V_FOV * 3) \div 10>>, <<0, -((V_FOV * 3) \div 10)>> }

\* Whether the sample at offset o from (yaw, pitch) falls in a covered cell.
SampleCovered(grid, yaw, pitch, o) ==
    CellIndex(toCell(yaw + o[1], Max(-9000, Min(9000, pitch + o[2])))) \in grid

CoveredSamples(grid, yaw, pitch) ==
    Cardinality({ o \in FovSamples : SampleCovered(grid, yaw, pitch, o) })

UncoveredSamples(grid, yaw, pitch) ==
    Cardinality({ o \in FovSamples : ~SampleCovered(grid, yaw, pitch, o) })

\* The guard of captureFrame.
CaptureFrameRuns(mounted, snapping) == ~(~mounted \/ snapping)

\* Mutant of SnappingOnStart: captureFrame forgets to raise the flag.
SnappingOnStart_NotSet == FALSE

\* What captureFrame sets isSnapping to before it awaits the camera.
SnappingOnStart == TRUE

\* Mutant of AutoCaptureFires: the stability check looks at one axis only.
AutoCaptureFires_OneAxis(ph, snapping, nPhotos, since, rate, yaw, pitch, grid) ==
    /\ ~(ph # "capturing" \/ snapping)
    /\ ~(nPhotos = 0)
    /\ ~(since < CAPTURE_COOLDOWN_MS)
    /\ rate.a < STABILITY_THRESHOLD
    /\ (CoveredSamples(grid, yaw, pitch) >= 1 /\ UncoveredSamples(grid, yaw, pitch) >= 2)

\* The auto-capture effect calls captureFrame.
AutoCaptureFires(ph, snapping, nPhotos, since, rate, yaw, pitch, grid) ==
    /\ ~(ph # "capturing" \/ snapping)
    /\ ~(nPhotos = 0)
    /\ ~(since < CAPTURE_COOLDOWN_MS)
    /\ (rate.a < STABILITY_THRESHOLD /\ rate.b < STABILITY_THRESHOLD)
    /\ (CoveredSamples(grid, yaw, pitch) >= 1 /\ UncoveredSamples(grid, yaw, pitch) >= 2)

\* Mutant of AutoFinishFires: the coverage ratio is compared with the
\* percentage 85 instead of 0.85.
AutoFinishFires_Percent(ph, cov, nPhotos) ==
    ph = "capturing" /\ cov >= TARGET_COVERAGE * TOTAL_CELLS /\ nPhotos >= MIN_PHOTOS_FINISH

\* Mutant of AutoFinishFires: the timer is scheduled only by a render in
\* which the coverage changed.
AutoFinishFires_CoverageOnly(ph, cov, nPhotos) ==
    ph = "capturing" /\ ReachedTarget(cov) /\ nPhotos >= MIN_PHOTOS_FINISH /\ cov # coverage

\* The auto-finish effect schedules its timer.
AutoFinishFires(ph, cov, nPhotos) ==
    ph = "capturing" /\ ReachedTarget(cov) /\ nPhotos >= MIN_PHOTOS_FINISH

\* Mutant of ProcessingDeps: the effect has no dependency array and runs
\* after every render.
ProcessingDeps_None(ph) == TRUE

\* The processing effect's dependency array [phase] has changed.
ProcessingDeps(ph) == ph # phase

\* Date.now() when a capture settles, read as a logical clock: captures settle
\* one at a time, so the n-th photo of a session carries the n-th reading.
Now(n) == n + 1

\* Math.round(coverage * 100) for a coverage kept as its cell count.
RoundPercent(cov) == (200 * cov + TOTAL_CELLS) \div (2 * TOTAL_CELLS)

\* Mutant of orientationData: the entries are listed newest first.
orientationData_NewestFirst(ps) ==
    [i \in DOMAIN ps |->
       LET p == ps[Len(ps) + 1 - i]
       IN  [id |-> p.id, yaw |-> p.yaw, pitch |-> p.pitch, roll |-> p.roll,
            timestamp |-> p.timestamp]]

\* photos.map((p) => ({id, yaw, pitch, roll, timestamp}))
orientationData(ps) ==
    [i \in DOMAIN ps |-> [id |-> ps[i].id, yaw |-> ps[i].yaw, pitch |-> ps[i].pitch,
                          roll |-> ps[i].roll, timestamp |-> ps[i].timestamp]]

\* A request a client call has made and what has come back for it so far:
\* "pending", "ok", "failed" (an error status or a network error) or "timeout".
Request(url, response) == [request |-> url, response |-> response]

\* handleStitch up to its fetch: one 'photos' part per photo of the render's
\* list (named by the photo it was read from), the metadata part, and the
\* requests the call has made: the POST, with no request before it and no
\* timer armed for it.  photos, grid and coverage are the session's state
\* when the call was made.
handleStitch(ps, grid, cov) ==
    [photos |-> ps, grid |-> grid, coverage |-> cov,
     parts |-> [i \in DOMAIN ps |-> ps[i].id],
     metadata |-> [captureType |-> "paint-sphere-360", photoCount |-> Len(ps),
                   coverage |-> RoundPercent(cov), orientations |-> orientationData(ps)],
     requests |-> <<Request("POST /api/stitch-panorama", "pending")>>,
     deadline |-> FALSE]

\* The processing effect calls handleStitch.
ProcessingFires(ph, nPhotos) == ph = "processing" /\ nPhotos >= MIN_PHOTOS_FINISH

\* One more pending timer; MaxTimers stands for "MaxTimers or more".
MoreTimers(n) == Min(n + 1, MaxTimers)

\* The re-render after a task that left the state at (ph, ps, snap, cov, ...),
\* and the effects whose dependencies changed in it.  tick is TRUE when the
\* task was the tick interval's setTick.  captureFrame, called by the
\* auto-capture effect, sets isSnapping, which causes one more render; in that
\* render the auto-capture effect returns at once and no dependency of the
\* other effects has changed.
Render(ph, ps, snap, cov, grid, since, infl, tmrs, sts, tick) ==
    LET nP == Len(ps)
        autoDeps == tick \/ ph # phase \/ snap # isSnapping \/ nP # Len(photos)
        auto == /\ autoDeps
                /\ AutoCaptureFires(ph, snap, nP, since, rateRef, yawRef, pitchRef, grid)
                /\ CaptureFrameRuns(CaptureScreen(ph, resultUri'), snap)
        finDeps == cov # coverage \/ ph # phase \/ nP # Len(photos)
        fin == finDeps /\ AutoFinishFires(ph, cov, nP)
        proc == ProcessingDeps(ph) /\ ProcessingFires(ph, nP)
    IN  /\ phase' = ph
        /\ photos' = ps
        /\ coverage' = cov
        /\ coverageGrid' = grid
        /\ isSnapping' = IF auto THEN SnappingOnStart ELSE snap
        /\ sinceLast' = IF auto THEN 0 ELSE since
        /\ sinceAuto' = IF auto THEN 0 ELSE sinceAuto
        /\ inflight' = IF auto THEN Append(infl, [auto |-> TRUE, stale |-> FALSE]) ELSE infl
        /\ timers' = IF fin THEN MoreTimers(tmrs) ELSE tmrs
        /\ stitches' = IF proc THEN Append(sts, handleStitch(ps, grid, cov)) ELSE sts

\* ------------------------------------------------------------------------
\* Initial state
\* ------------------------------------------------------------------------
\* The server before a request: nothing received, nothing written, no answer.
NoResponse == [status |-> 0, success |-> FALSE, resolution |-> "none"]
ServerIdle ==
    [pc |-> "idle", files |-> <<>>, orientations |-> <<>>, whole |-> "none",
     sortedPaths |-> <<>>, sortedOrientations |-> <<>>,
     okBuckets |-> {}, fallback |-> FALSE, strips |-> <<>>, stacked |-> <<>>,
     output |-> NoImage, onDisk |-> {}, scriptOnDisk |-> FALSE, child |-> "none",
     response |-> NoResponse]

\* No upload function has been called.
NoMetadata == [captureType |-> "none", photoCount |-> 0, orientations |-> <<>>]
UploadIdle ==
    [fn |-> "none", pc |-> "idle", photos |-> <<>>, orientations |-> <<>>,
     requests |-> <<>>, parts |-> <<>>, metadata |-> NoMetadata, deadline |-> FALSE,
     error |-> "none"]

\* The 8-photo capture screen as mounted: scanning, nothing captured, no
\* capture in flight, no timer pending, nothing saved.
NoInterval == [active |-> FALSE, progress |-> 0, photos |-> <<>>]
CreateIdle ==
    [status |-> "scanning", capturedCount |-> 0, photos |-> <<>>, processingProgress |-> 0,
     isCapturing |-> FALSE, captures |-> <<>>, switches |-> 0, interval |-> NoInterval,
     panoramas |-> <<>>, alerts |-> 0, shots |-> 0, resets |-> 0]

Init ==
    /\ phase = "ready"
    /\ photos = <<>>
    /\ isSnapping = FALSE
    /\ resultUri = FALSE
    /\ coverageGrid = {}
    /\ coverage = 0
    /\ yawRef = 0 /\ pitchRef = 0 /\ rollRef = 0
    /\ rateRef = [a |-> 0, b |-> 0]
    /\ startRef = NoStart
    /\ sinceLast = SinceCap
    /\ sinceAuto = CAPTURE_COOLDOWN_MS
    /\ photoIdRef = 0
    /\ inflight = <<>>
    /\ timers = 0
    /\ stitches = <<>>
    /\ pose \in {0, PathLen}
    /\ server = ServerIdle
    /\ upload = UploadIdle
    /\ create = CreateIdle

\* ------------------------------------------------------------------------
\* Actions
\* ------------------------------------------------------------------------
RemoveAt(s, i) == SubSeq(s, 1, i - 1) \o SubSeq(s, i + 1, Len(s))

\* History only: the captures still in flight belong to a session that a
\* reset or a start has replaced.
MarkStale(infl) ==
    IF infl = <<>> THEN <<>> ELSE [i \in DOMAIN infl |-> [infl[i] EXCEPT !.stale = TRUE]]

\* The crosshair (current yaw/pitch) points at a covered cell.
CentreCovered == CellIndex(toCell(yawRef, pitchRef)) \in coverageGrid

\* "Start Capture" on the ready screen.  The user starts every session with
\* the device at the first pose of the sweep, and takes longer to press Start
\* on the ready screen than the 800 ms a pending auto-finish timer has left.
startCapture ==
    /\ phase = "ready"
    /\ timers = 0
    /\ pose' = RouteStart(pose)
    /\ startRef' = NoStart
    /\ photoIdRef' = 0
    /\ resultUri' = FALSE
    /\ Render("capturing", <<>>, isSnapping, 0, {}, SinceCap,
              MarkStale(inflight), timers, stitches, FALSE)
    /\ UNCHANGED <<create, server, upload, yawRef, pitchRef, rollRef, rateRef>>

\* The close button of the capture screen, "Capture Another" of the result screen.
resetAll ==
    /\ CaptureScreen(phase, resultUri) \/ (phase = "done" /\ resultUri)
    /\ Len(photos) <= ResetLimit \/ ReachedTarget(coverage) \/ phase = "done"
    /\ startRef' = NoStart
    /\ resultUri' = FALSE
    /\ Render("ready", <<>>, isSnapping, 0, {}, sinceLast,
              MarkStale(inflight), timers, stitches, FALSE)
    /\ UNCHANGED <<create, server, upload, yawRef, pitchRef, rollRef, rateRef, photoIdRef, pose>>

\* Mutant of handleRecalibrate: it also starts the coverage over.
handleRecalibrate_ClearsCoverage ==
    /\ CaptureScreen(phase, resultUri)
    /\ Len(photos) <= RecalLimit
    /\ startRef' = NoStart
    /\ yawRef' = 0 /\ pitchRef' = 0 /\ rollRef' = 0
    /\ coverageGrid' = {} /\ coverage' = 0
    /\ UNCHANGED <<create, server, upload, phase, photos, isSnapping, resultUri, rateRef,
                   sinceLast, photoIdRef, inflight, timers, stitches, pose, sinceAuto>>

\* The target button of the capture screen.  It sets no state: no re-render.
handleRecalibrate ==
    /\ CaptureScreen(phase, resultUri)
    /\ Len(photos) <= RecalLimit
    /\ startRef' = NoStart
    /\ yawRef' = 0 /\ pitchRef' = 0 /\ rollRef' = 0
    /\ UNCHANGED <<create, server, upload, phase, photos, isSnapping, resultUri, coverageGrid, coverage, rateRef,
                   sinceLast, photoIdRef, inflight, timers, stitches, pose, sinceAuto>>

\* The shutter button: captureFrame up to its await.  The user presses it once
\* an orientation sample has arrived since the last start or recalibration,
\* with the crosshair on a cell not photographed yet.
ShutterPress ==
    /\ CaptureScreen(phase, resultUri)
    /\ startRef # NoStart
    /\ ~CentreCovered
    /\ IF CaptureFrameRuns(CaptureScreen(phase, resultUri), isSnapping)
       THEN /\ resultUri' = resultUri
            /\ Render(phase, photos, SnappingOnStart, coverage, coverageGrid, 0,
                      Append(inflight, [auto |-> FALSE, stale |-> FALSE]), timers, stitches, FALSE)
            /\ UNCHANGED <<create, server, upload, yawRef, pitchRef, rollRef, rateRef, startRef, photoIdRef, pose>>
       ELSE UNCHANGED vars

\* Mutant of SnappingOnSettle: the flag is lowered at the end of the try
\* block, so a failed capture leaves it as it was.
SnappingOnSettle_TryOnly(ok, snapping) == IF ok THEN FALSE ELSE snapping

\* captureFrame's finally block: setIsSnapping(false), whether takePictureAsync
\* resolved or threw.
SnappingOnSettle(ok, snapping) == FALSE

\* takePictureAsync settles and captureFrame runs to its end.
CaptureSettles(i, ok) ==
    /\ i \in 1..Len(inflight)
    /\ resultUri' = resultUri
    /\ IF ok
       THEN LET captured == [id |-> photoIdRef, yaw |-> yawRef, pitch |-> pitchRef,
                             roll |-> rollRef, timestamp |-> Now(photoIdRef)]
                grid == markCoverage(coverageGrid, captured.yaw, captured.pitch)
            IN  /\ photoIdRef' = photoIdRef + 1
                /\ Render(phase, Append(photos, captured), SnappingOnSettle(ok, isSnapping),
                          CoverageCount(grid), grid, sinceLast,
                          RemoveAt(inflight, i), timers, stitches, FALSE)
       ELSE /\ photoIdRef' = photoIdRef
            /\ Render(phase, photos, SnappingOnSettle(ok, isSnapping), coverage,
                      coverageGrid, sinceLast, RemoveAt(inflight, i), timers, stitches, FALSE)
    /\ UNCHANGED <<create, server, upload, yawRef, pitchRef, rollRef, rateRef, startRef, pose>>

\* The Finish button, shown once MIN_PHOTOS_FINISH photos exist.
FinishPress ==
    /\ CaptureScreen(phase, resultUri)
    /\ Len(photos) >= MIN_PHOTOS_FINISH
    /\ Len(photos) <= FinishLimit \/ ReachedTarget(coverage)
    /\ resultUri' = resultUri
    /\ Render("processing", photos, isSnapping, coverage, coverageGrid, sinceLast,
              inflight, timers, stitches, FALSE)
    /\ UNCHANGED <<create, server, upload, yawRef, pitchRef, rollRef, rateRef, startRef, photoIdRef, pose>>

\* A timer of the auto-finish effect fires: setPhase('processing').
AutoFinishTimer ==
    /\ timers > 0
    /\ \E left \in {timers - 1} \cup (IF timers = MaxTimers THEN {timers} ELSE {}) :
         /\ resultUri' = resultUri
         /\ Render("processing", photos, isSnapping, coverage, coverageGrid,
                   sinceLast, inflight, left, stitches, FALSE)
    /\ UNCHANGED <<create, server, upload, yawRef, pitchRef, rollRef, rateRef, startRef, photoIdRef, pose>>

\* handleStitch settles: with a downloaded panorama, or in its catch block.
\* The camera is taken to settle a capture sooner than the server answers.
StitchSettles(i, ok) ==
    /\ i \in 1..Len(stitches)
    /\ inflight = <<>>
    /\ resultUri' = IF ok THEN TRUE ELSE resultUri
    /\ Render(IF ok THEN "done" ELSE "capturing", photos, isSnapping, coverage,
              coverageGrid, sinceLast, inflight, timers, RemoveAt(stitches, i), FALSE)
    /\ UNCHANGED <<create, server, upload, yawRef, pitchRef, rollRef, rateRef, startRef, photoIdRef, pose>>

\* Mutant of wrapYaw: a single remainder, which keeps the sign of the delta.
wrapYaw_SingleMod(yaw) == JsMod(yaw, 36000)

\* yaw = ((yaw % 360) + 360) % 360.
wrapYaw(yaw) == JsMod(JsMod(yaw, 36000) + 36000, 36000)

\* A DeviceMotion sample reaches the listener (subscribed in 'capturing' and
\* 'ready').  The device stays where it is, or moves on to the next pose of
\* the sweep once the crosshair's cell is photographed.  A listener sets refs
\* only: no re-render.
DeviceMotionSample ==
    /\ phase \in {"capturing", "ready"}
    /\ \E k \in {pose} \cup (IF CentreCovered /\ pose + 1 < RouteEnd(pose) THEN {pose + 1} ELSE {}) :
       \E rate \in Rates(k) :
         LET data == Path(k)
             start == IF startRef = NoStart
                      THEN [alpha |-> data.alpha, beta |-> data.beta] ELSE startRef
             yaw == -(data.alpha - start.alpha)
         IN  /\ pose' = k
             /\ startRef' = start
             /\ yawRef' = wrapYaw(yaw)
             /\ pitchRef' = 9000 - data.beta
             /\ rollRef' = data.gamma
             /\ rateRef' = rate
    /\ UNCHANGED <<create, server, upload, phase, photos, isSnapping, resultUri, coverageGrid, coverage, sinceLast,
                   photoIdRef, inflight, timers, stitches, sinceAuto>>

\* The 50 ms interval of the capturing phase: setTick re-renders, and the
\* auto-capture effect runs.
Tick ==
    /\ phase = "capturing"
    /\ resultUri' = resultUri
    /\ Render(phase, photos, isSnapping, coverage, coverageGrid, sinceLast,
              inflight, timers, stitches, TRUE)
    /\ UNCHANGED <<create, server, upload, yawRef, pitchRef, rollRef, rateRef, startRef, photoIdRef, pose>>

\* TimeStep ms pass.
TimePasses ==
    /\ sinceLast < SinceCap \/ sinceAuto < CAPTURE_COOLDOWN_MS
    /\ sinceLast' = Min(sinceLast + TimeStep, SinceCap)
    /\ sinceAuto' = Min(sinceAuto + TimeStep, CAPTURE_COOLDOWN_MS)
    /\ UNCHANGED <<create, server, upload, phase, photos, isSnapping, resultUri, coverageGrid, coverage, yawRef,
                   pitchRef, rollRef, rateRef, startRef, photoIdRef, inflight, timers,
                   stitches, pose>>

Next ==
    \/ startCapture
    \/ resetAll
    \/ handleRecalibrate
    \/ ShutterPress
    \/ \E i \in 1..Len(inflight), ok \in BOOLEAN : CaptureSettles(i, ok)
    \/ FinishPress
    \/ AutoFinishTimer
    \/ \E i \in 1..Len(stitches), ok \in BOOLEAN : StitchSettles(i, ok)
    \/ DeviceMotionSample
    \/ Tick
    \/ TimePasses

Spec == Init /\ [][Next]_vars

\* The auto-finish timer callback always gets to run.
FairSpec == Spec /\ WF_vars(AutoFinishTimer)

\* ------------------------------------------------------------------------
\* The grid functions on chosen orientations
\* ------------------------------------------------------------------------
\* Orientations the listener may have left in yawRef / pitchRef when a capture
\* resolves: yaws at and around the 0/360 seam and away from it, pitches at
\* the poles, 5 degrees beyond them, and in between.
GridYaws == {0, 1000, 35000, 35833, 18000, 9150}
GridPitches == {0, 7000, 9000, 9500, -9000, -9500, -4000}

\* A session that has just started.
GridInit ==
    /\ phase = "capturing"
    /\ photos = <<>>
    /\ isSnapping = FALSE
    /\ resultUri = FALSE
    /\ coverageGrid = {}
    /\ coverage = 0
    /\ yawRef = 0 /\ pitchRef = 0 /\ rollRef = 0
    /\ rateRef = [a |-> 0, b |-> 0]
    /\ startRef = NoStart
    /\ sinceLast = SinceCap
    /\ sinceAuto = CAPTURE_COOLDOWN_MS
    /\ photoIdRef = 0
    /\ inflight = <<>>
    /\ timers = 0
    /\ stitches = <<>>
    /\ pose = 0
    /\ server = ServerIdle
    /\ upload = UploadIdle
    /\ create = CreateIdle

\* The listener leaves (yaw, pitch) in the refs and a capture resolves there:
\* the continuation of captureFrame appends the photo and calls markCoverage.
GridCapture(yaw, pitch) ==
    /\ Len(photos) < MaxStamps
    /\ yawRef' = yaw /\ pitchRef' = pitch
    /\ LET captured == [id |-> photoIdRef, yaw |-> yaw, pitch |-> pitch, roll |-> rollRef,
                        timestamp |-> Now(photoIdRef)]
           grid == markCoverage(coverageGrid, captured.yaw, captured.pitch)
       IN  /\ photoIdRef' = photoIdRef + 1
           /\ photos' = Append(photos, captured)
           /\ coverageGrid' = grid
           /\ coverage' = CoverageCount(grid)
    /\ UNCHANGED <<create, server, upload, phase, isSnapping, resultUri, rollRef, rateRef, startRef, sinceLast,
                   sinceAuto, inflight, timers, stitches, pose>>

GridNext == \E yaw \in GridYaws, pitch \in GridPitches : GridCapture(yaw, pitch)

GridSpec == GridInit /\ [][GridNext]_vars

\* ------------------------------------------------------------------------
\* The grid functions on a photo and its surroundings
\* ------------------------------------------------------------------------
\* The user photographs the eight directions around a point (the directions
\* of the probes of a photo taken there) and then the point itself, leaving
\* out any of the nine.  pose is 0 before a point is chosen, then
\* SurroundStride * (point number) + the number of directions gone through.
SurroundStride == 10
SurroundCentres ==
    << [yaw |-> 0, pitch |-> 0], [yaw |-> 35000, pitch |-> -3000],
       [yaw |-> 18000, pitch |-> 6000] >>
SurroundPoint(c, k) ==
    IF k < Len(Probes) THEN ProbeGuide(SurroundCentres[c], Probes[k + 1])
    ELSE SurroundCentres[c]

\* The user settles on the point to photograph around.
SurroundStart(c) ==
    /\ pose = 0
    /\ pose' = SurroundStride * c
    /\ UNCHANGED <<create, server, upload, phase, photos, isSnapping, resultUri, coverageGrid,
                   coverage, yawRef, pitchRef, rollRef, rateRef, startRef, sinceLast,
                   photoIdRef, sinceAuto, inflight, timers, stitches>>

\* The user turns to the next direction and a capture resolves there (take),
\* or the direction is left out.
SurroundCapture(take) ==
    /\ pose >= SurroundStride
    /\ pose % SurroundStride <= Len(Probes)
    /\ pose' = pose + 1
    /\ LET at == SurroundPoint(pose \div SurroundStride, pose % SurroundStride)
           captured == [id |-> photoIdRef, yaw |-> at.yaw, pitch |-> at.pitch,
                        roll |-> rollRef, timestamp |-> Now(photoIdRef)]
           grid == markCoverage(coverageGrid, captured.yaw, captured.pitch)
       IN  IF take
           THEN /\ yawRef' = at.yaw /\ pitchRef' = at.pitch
                /\ photoIdRef' = photoIdRef + 1
                /\ photos' = Append(photos, captured)
                /\ coverageGrid' = grid
                /\ coverage' = CoverageCount(grid)
           ELSE UNCHANGED <<yawRef, pitchRef, photoIdRef, photos, coverageGrid, coverage>>
    /\ UNCHANGED <<create, server, upload, phase, isSnapping, resultUri, rollRef, rateRef, startRef,
                   sinceLast, sinceAuto, inflight, timers, stitches>>

SurroundNext ==
    \/ \E c \in 1..Len(SurroundCentres) : SurroundStart(c)
    \/ \E take \in BOOLEAN : SurroundCapture(take)

SurroundSpec == GridInit /\ [][SurroundNext]_vars

\* ------------------------------------------------------------------------
\* The stitching server's handling of a request
\* ------------------------------------------------------------------------
\* The variables of the capture screen.
clientVars == <<phase, photos, isSnapping, resultUri, coverageGrid, coverage, yawRef,
                pitchRef, rollRef, rateRef, startRef, sinceLast, photoIdRef, inflight,
                timers, stitches, pose, sinceAuto, upload, create>>

\* The uploads of a request of n photos: landscape and portrait camera frames.
Uploads(n) == [i \in 1..n |-> IF i % 2 = 1 THEN [id |-> {i}, w |-> 4000, h |-> 3000]
                                           ELSE [id |-> {i}, w |-> 3000, h |-> 4000]]

\* The pitches a request's orientations may carry, and the yaw of the i-th of
\* n photos (later photos further to the left).
ReqPitches == {0, 1500, 4500, -6600}
ReqYaw(i, n) == 9000 * (n - i)

\* metadata.orientations of a request of n photos: absent (clients that send
\* no orientations), one orientation per photo, or one orientation fewer than
\* photos (the endpoint does not compare the two lengths).
ReqOrientations(n) ==
    {<<>>} \cup
    IF n < MinImages THEN {}
    ELSE { [i \in 1..m |-> [yaw |-> ReqYaw(i, n), pitch |-> ps[i]]] :
             m \in {n - 1, n}, ps \in [1..n -> ReqPitches] }

\* The black borders the crop removes.
Trims == { [x |-> 0, y |-> 0], [x |-> 120, y |-> 64] }

\* The buckets of a request that hold more than one photo.
SharedBuckets(orientations) ==
    { PitchBucket(orientations[i]) : i \in DOMAIN orientations } \cap
    { b \in { PitchBucket(orientations[i]) : i \in DOMAIN orientations } :
        \E i, j \in DOMAIN orientations :
            i # j /\ PitchBucket(orientations[i]) = b /\ PitchBucket(orientations[j]) = b }

\* cleanupFiles: every listed path that exists is unlinked.
cleanupFiles(onDisk, filePaths) == onDisk \ filePaths

\* The paths multer stored the uploads under.
UploadPaths(files) == UNION { files[i].id : i \in DOMAIN files }

\* The handler up to "await checkPythonAvailable()": multer has stored the
\* uploads; a request with fewer than 3 files is answered 400 and the
\* finally block removes the uploads.
PostStitchPanorama(files, orientations) ==
    /\ server.pc = "idle"
    /\ server' = IF Len(files) < MinImages
                 THEN [server EXCEPT !.pc = "answered", !.files = files,
                                     !.orientations = orientations,
                                     !.onDisk = cleanupFiles(UploadPaths(files),
                                                             UploadPaths(files)),
                                     !.response = [status |-> 400, success |-> FALSE,
                                                   resolution |-> "none"]]
                 ELSE [server EXCEPT !.pc = "checking", !.files = files,
                                     !.orientations = orientations,
                                     !.onDisk = UploadPaths(files)]
    /\ UNCHANGED clientVars

\* checkPythonAvailable resolves.  Without Python/OpenCV createSimplePanorama
\* copies the first upload to the output path and the request is answered;
\* with it the script is written next to the outputs and spawned.
CheckPythonResolves(available) ==
    /\ server.pc = "checking"
    /\ server' = IF available
                 THEN [server EXCEPT !.pc = "stitching", !.scriptOnDisk = TRUE,
                                     !.child = "running"]
                 ELSE [server EXCEPT !.pc = "answered", !.output = server.files[1],
                                     !.onDisk = cleanupFiles(server.onDisk,
                                                             UploadPaths(server.files)),
                                     !.response = [status |-> 200, success |-> TRUE,
                                                   resolution |-> "undefined"]]
    /\ UNCHANGED clientVars

\* The Python process closes: the script is unlinked and the handler answers,
\* success when the exit code is 0 and the output file exists, else 500; the
\* finally block removes the uploads.
PythonCloses(wholeOk, okBuckets, trim) ==
    /\ server.pc = "stitching"
    /\ LET run == stitch_equirectangular(server.files, server.orientations, wholeOk,
                                         okBuckets, trim)
       IN  server' = [server EXCEPT
                        !.pc = "answered",
                        !.whole = IF wholeOk THEN "ok" ELSE "failed",
                        !.sortedPaths = run.paths,
                        !.sortedOrientations = run.orientations,
                        !.okBuckets = okBuckets,
                        !.fallback = run.fallback,
                        !.strips = run.strips,
                        !.stacked = run.stacked,
                        !.output = run.output,
                        !.scriptOnDisk = FALSE,
                        !.child = "closed",
                        !.onDisk = cleanupFiles(server.onDisk, UploadPaths(server.files)),
                        !.response = IF run.ok /\ run.output # NoImage
                                     THEN [status |-> 200, success |-> TRUE,
                                           resolution |-> "4096x2048"]
                                     ELSE [status |-> 500, success |-> FALSE,
                                           resolution |-> "none"]]
    /\ UNCHANGED clientVars

\* The child process emits 'error' (it could not be spawned): the promise
\* resolves with a failure, the handler answers 500 and the finally block
\* removes the uploads.  This listener does not unlink the script.
PythonErrors ==
    /\ server.pc = "stitching"
    /\ server' = [server EXCEPT
                    !.pc = "answered",
                    !.child = "error",
                    !.onDisk = cleanupFiles(server.onDisk, UploadPaths(server.files)),
                    !.response = [status |-> 500, success |-> FALSE, resolution |-> "none"]]
    /\ UNCHANGED clientVars

\* A 'close' event that the runtime may still emit for a child that failed
\* to spawn, after the request was answered: the listener unlinks the script
\* (its resolve has no effect, the promise is settled).
ClosesAfterError ==
    /\ server.child = "error"
    /\ server' = [server EXCEPT !.child = "closed", !.scriptOnDisk = FALSE]
    /\ UNCHANGED clientVars

ServerNext ==
    \/ \E n \in (MinImages - 1)..MaxUpload :
         \E orientations \in ReqOrientations(n) : PostStitchPanorama(Uploads(n), orientations)
    \/ \E available \in BOOLEAN : CheckPythonResolves(available)
    \/ PythonCloses(TRUE, {}, [x |-> 0, y |-> 0])
    \/ \E okBuckets \in SUBSET SharedBuckets(server.orientations), trim \in Trims :
         PythonCloses(FALSE, okBuckets, trim)
    \/ PythonErrors
    \/ ClosesAfterError

ServerInit == Init /\ pose = 0

ServerSpec == ServerInit /\ [][ServerNext]_vars

\* ------------------------------------------------------------------------
\* The client upload functions and the server they talk to
\* ------------------------------------------------------------------------
\* The pitches of the orientations a caller passes.
CallPitches == {0, 4500}

\* The PhotoOrientation[] a caller passes with n photos: one per photo.
CallOrientations(n) ==
    { [i \in 1..n |-> [targetId |-> i - 1, yaw |-> ReqYaw(i, n), pitch |-> ps[i],
                       roll |-> 0, timestamp |-> Now(i - 1)]] : ps \in [1..n -> CallPitches] }

\* metadata.orientations as the server's script reads it: yaw and pitch.
ParsedOrientations(orientations) ==
    [i \in DOMAIN orientations |-> [yaw |-> orientations[i].yaw, pitch |-> orientations[i].pitch]]

\* The last request of a call gets its response.
Answered(requests, response) ==
    [requests EXCEPT ![Len(requests)] = Request(requests[Len(requests)].request, response)]

\* Mutant of assembleSphericalPanorama: the length check is missing.
assembleSphericalPanorama_NoMinimum(uris, orientations, allExist) ==
    /\ upload.pc = "idle"
    /\ upload' = IF ~allExist
                 THEN [upload EXCEPT !.fn = "assembleSphericalPanorama", !.pc = "rejected",
                                     !.photos = uris, !.orientations = orientations,
                                     !.error = "Photo not found"]
                 ELSE [upload EXCEPT !.fn = "assembleSphericalPanorama", !.pc = "probing",
                                     !.photos = uris, !.orientations = orientations,
                                     !.requests = <<Request("GET /api/health", "pending")>>]
    /\ UNCHANGED <<create, server, phase, photos, isSnapping, resultUri, coverageGrid, coverage,
                   yawRef, pitchRef, rollRef, rateRef, startRef, sinceLast, photoIdRef,
                   inflight, timers, stitches, pose, sinceAuto>>

\* assembleSphericalPanorama up to its health fetch: fewer than 3 photos or a
\* missing photo file throw before any request is made.
assembleSphericalPanorama(uris, orientations, allExist) ==
    /\ upload.pc = "idle"
    /\ upload' = IF Len(uris) < 3
                 THEN [upload EXCEPT !.fn = "assembleSphericalPanorama", !.pc = "rejected",
                                     !.photos = uris, !.orientations = orientations,
                                     !.error = "Need at least 3 photos"]
                 ELSE IF ~allExist
                 THEN [upload EXCEPT !.fn = "assembleSphericalPanorama", !.pc = "rejected",
                                     !.photos = uris, !.orientations = orientations,
                                     !.error = "Photo not found"]
                 ELSE [upload EXCEPT !.fn = "assembleSphericalPanorama", !.pc = "probing",
                                     !.photos = uris, !.orientations = orientations,
                                     !.requests = <<Request("GET /api/health", "pending")>>]
    /\ UNCHANGED <<create, server, phase, photos, isSnapping, resultUri, coverageGrid, coverage,
                   yawRef, pitchRef, rollRef, rateRef, startRef, sinceLast, photoIdRef,
                   inflight, timers, stitches, pose, sinceAuto>>

\* The health fetch settles: ok, not ok or unreachable ("failed"), or cut off
\* by AbortSignal.timeout(5000).  On ok the form data is built (one 'photos'
\* part per photo, then the metadata), the deadline timer is armed and the
\* POST is made; otherwise the call throws "Server unreachable".
HealthSettles(outcome) ==
    /\ upload.pc = "probing"
    /\ upload' = IF outcome = "ok"
                 THEN [upload EXCEPT
                         !.pc = "posting",
                         !.parts = [i \in DOMAIN upload.photos |-> upload.photos[i].id],
                         !.metadata = [captureType |-> "spherical-360",
                                       photoCount |-> Len(upload.photos),
                                       orientations |-> upload.orientations],
                         !.deadline = TRUE,
                         !.requests = Append(Answered(upload.requests, "ok"),
                                             Request("POST /api/stitch-panorama", "pending"))]
                 ELSE [upload EXCEPT !.pc = "rejected", !.error = "Server unreachable",
                                     !.requests = Answered(upload.requests, outcome)]
    /\ UNCHANGED <<create, server, phase, photos, isSnapping, resultUri, coverageGrid, coverage,
                   yawRef, pitchRef, rollRef, rateRef, startRef, sinceLast, photoIdRef,
                   inflight, timers, stitches, pose, sinceAuto>>

\* PanoramaService.createPanorama with GPS metadata: fewer than MIN_IMAGES
\* images throw before any request; otherwise axios posts at once with
\* REQUEST_TIMEOUT.
createPanorama(imageArray) ==
    /\ upload.pc = "idle"
    /\ upload' = IF Len(imageArray) < 3
                 THEN [upload EXCEPT !.fn = "createPanorama", !.pc = "rejected",
                                     !.photos = imageArray,
                                     !.error = "Minimum 3 images requises"]
                 ELSE [upload EXCEPT
                         !.fn = "createPanorama", !.pc = "posting", !.photos = imageArray,
                         !.parts = [i \in DOMAIN imageArray |-> imageArray[i].id],
                         !.metadata = [captureType |-> "gps", photoCount |-> 0,
                                       orientations |-> <<>>],
                         !.deadline = TRUE,
                         !.requests = <<Request("POST /api/stitch-panorama", "pending")>>]
    /\ UNCHANGED <<create, server, phase, photos, isSnapping, resultUri, coverageGrid, coverage,
                   yawRef, pitchRef, rollRef, rateRef, startRef, sinceLast, photoIdRef,
                   inflight, timers, stitches, pose, sinceAuto>>

\* The POST of the call reaches the server.
PostArrives ==
    /\ upload.pc = "posting"
    /\ PostStitchPanorama(upload.photos, ParsedOrientations(upload.metadata.orientations))

\* A request of another client with too few photos reaches the server.
OtherClientPosts ==
    /\ upload.pc = "idle"
    /\ PostStitchPanorama(Uploads(MinImages - 1), <<>>)

\* The server's answer reaches the call: the deadline timer is cleared.
\* assembleSphericalPanorama throws on a status that is not ok or on
\* success=false and else downloads result.panoramaUrl; axios rejects a
\* status outside 2xx and createPanorama returns response.data.
ResponseArrives ==
    /\ upload.pc = "posting"
    /\ server.pc = "answered"
    /\ server.files = upload.photos
    /\ LET good == server.response.status = 200 /\ server.response.success
       IN  upload' =
             IF ~good
             THEN [upload EXCEPT !.pc = "rejected", !.deadline = FALSE,
                                 !.error = "Server error",
                                 !.requests = Answered(upload.requests, "failed")]
             ELSE IF upload.fn = "createPanorama"
             THEN [upload EXCEPT !.pc = "resolved", !.deadline = FALSE,
                                 !.requests = Answered(upload.requests, "ok")]
             ELSE [upload EXCEPT !.pc = "downloading", !.deadline = FALSE,
                                 !.requests = Append(Answered(upload.requests, "ok"),
                                                     Request("GET panoramaUrl", "pending"))]
    /\ UNCHANGED <<create, server, phase, photos, isSnapping, resultUri, coverageGrid, coverage,
                   yawRef, pitchRef, rollRef, rateRef, startRef, sinceLast, photoIdRef,
                   inflight, timers, stitches, pose, sinceAuto>>

\* The deadline passes with the POST still pending: the timer aborts the
\* fetch ("Stitching timed out"), axios gives up after REQUEST_TIMEOUT.
DeadlineFires ==
    /\ upload.pc = "posting"
    /\ upload.deadline
    /\ upload' = [upload EXCEPT !.pc = "rejected", !.deadline = FALSE,
                                !.error = "Stitching timed out",
                                !.requests = Answered(upload.requests, "timeout")]
    /\ UNCHANGED <<create, server, phase, photos, isSnapping, resultUri, coverageGrid, coverage,
                   yawRef, pitchRef, rollRef, rateRef, startRef, sinceLast, photoIdRef,
                   inflight, timers, stitches, pose, sinceAuto>>

\* downloadPanorama settles.
DownloadSettles(ok) ==
    /\ upload.pc = "downloading"
    /\ upload' = IF ok THEN [upload EXCEPT !.pc = "resolved",
                                           !.requests = Answered(upload.requests, "ok")]
                 ELSE [upload EXCEPT !.pc = "rejected", !.error = "Download failed",
                                     !.requests = Answered(upload.requests, "failed")]
    /\ UNCHANGED <<create, server, phase, photos, isSnapping, resultUri, coverageGrid, coverage,
                   yawRef, pitchRef, rollRef, rateRef, startRef, sinceLast, photoIdRef,
                   inflight, timers, stitches, pose, sinceAuto>>

UploadNext ==
    \/ \E n \in (MinImages - 1)..MaxUpload :
         \E orientations \in CallOrientations(n), allExist \in BOOLEAN :
            assembleSphericalPanorama(Uploads(n), orientations, allExist)
    \/ \E outcome \in {"ok", "failed", "timeout"} : HealthSettles(outcome)
    \/ \E n \in (MinImages - 1)..MaxUpload : createPanorama(Uploads(n))
    \/ PostArrives
    \/ OtherClientPosts
    \/ \E available \in BOOLEAN : CheckPythonResolves(available)
    \/ PythonCloses(TRUE, {}, [x |-> 0, y |-> 0])
    \/ \E okBuckets \in SUBSET SharedBuckets(server.orientations), trim \in Trims :
         PythonCloses(FALSE, okBuckets, trim)
    \/ PythonErrors
    \/ ClosesAfterError
    \/ ResponseArrives
    \/ DeadlineFires
    \/ \E ok \in BOOLEAN : DownloadSettles(ok)

UploadSpec == ServerInit /\ [][UploadNext]_vars

\* ------------------------------------------------------------------------
\* The 8-photo capture screen (CreateScreen)
\* ------------------------------------------------------------------------
\* create.captures are the capturePhoto calls that have not returned: count is
\* the capturedCount of the render the call was made from, uri names the
\* photo it takes, pc is "delay" (in the 100 ms wait) or "taking" (in
\* takePictureAsync).  create.switches counts the pending
\* setTimeout(() => setStatus('processing'), 500) callbacks, create.interval
\* is the processing effect's interval with the progress and the photo list
\* of its closure, create.panoramas is what savePanorama has stored (the
\* photoCount of each), create.alerts counts the open "Panorama Créé" alerts.
\* shots and resets count the shutter and reset presses so far.
MaxShots == 9
CreateResetLimit == 2

captureVars == <<phase, photos, isSnapping, resultUri, coverageGrid, coverage, yawRef,
                 pitchRef, rollRef, rateRef, startRef, sinceLast, photoIdRef, inflight,
                 timers, stitches, pose, sinceAuto>>

\* The re-render after a task that left status and photos at (st, ps): the
\* processing effect, with dependencies [status, photos], cleans up (clears
\* its interval) and runs again when either changed, starting an interval
\* over the render's photo list if the status is processing.
ProcessingEffect(st, ps) ==
    IF st = create.status /\ ps = create.photos THEN create.interval
    ELSE IF st = "processing" THEN [active |-> TRUE, progress |-> 0, photos |-> ps]
    ELSE NoInterval

\* The shutter button of the scanning screen (disabled while capturing or
\* with TOTAL_PHOTOS captured): capturePhoto up to its first await.
capturePhoto ==
    /\ create.status = "scanning"
    /\ ~create.isCapturing
    /\ create.capturedCount < TOTAL_PHOTOS
    /\ create.shots < MaxShots
    /\ create' = [create EXCEPT
                    !.isCapturing = TRUE,
                    !.shots = @ + 1,
                    !.captures = Append(@, [count |-> create.capturedCount,
                                            uri |-> create.shots + 1, pc |-> "delay"])]
    /\ UNCHANGED <<server, upload, captureVars>>

\* The 100 ms wait of a capturePhoto call is over: with the camera mounted
\* (scanning screen) takePictureAsync is called; otherwise the call throws,
\* and its finally block lowers isCapturing.
DelayElapses(i) ==
    /\ i \in 1..Len(create.captures)
    /\ create.captures[i].pc = "delay"
    /\ IF create.status = "scanning"
       THEN create' = [create EXCEPT !.captures[i].pc = "taking"]
       ELSE create' = [create EXCEPT !.captures = RemoveAt(@, i), !.isCapturing = FALSE]
    /\ UNCHANGED <<server, upload, captureVars>>

\* capturedCount + 1 === TOTAL_PHOTOS, on the capturedCount of the call's render.
SwitchScheduled(count, nPhotos) == count + 1 = TOTAL_PHOTOS

\* takePictureAsync settles and capturePhoto runs to its end.
CaptureCompletes(i, ok) ==
    /\ i \in 1..Len(create.captures)
    /\ create.captures[i].pc = "taking"
    /\ LET call == create.captures[i]
           ps == IF ok THEN Append(create.photos, call.uri) ELSE create.photos
       IN  create' = [create EXCEPT
                        !.captures = RemoveAt(@, i),
                        !.photos = ps,
                        !.capturedCount = IF ok THEN @ + 1 ELSE @,
                        !.switches = IF ok /\ SwitchScheduled(call.count, Len(create.photos))
                                     THEN @ + 1 ELSE @,
                        !.isCapturing = FALSE,
                        !.interval = ProcessingEffect(create.status, ps)]
    /\ UNCHANGED <<server, upload, captureVars>>

\* A 500 ms timer of capturePhoto fires: setStatus('processing').
SwitchFires ==
    /\ create.switches > 0
    /\ create' = [create EXCEPT
                    !.switches = @ - 1,
                    !.status = "processing",
                    !.interval = ProcessingEffect("processing", create.photos)]
    /\ UNCHANGED <<server, upload, captureVars>>

\* The processing effect's interval fires: the progress goes up by 10; at 100
\* the interval is cleared, savePanorama stores the photo list of the
\* effect's render (ok) or fails, and the alert is shown.
IntervalFires(ok) ==
    /\ create.interval.active
    /\ LET progress == create.interval.progress + 10
       IN  IF progress >= 100
           THEN create' = [create EXCEPT
                             !.processingProgress = progress,
                             !.interval.active = FALSE,
                             !.interval.progress = progress,
                             !.panoramas = IF ok THEN Append(@, Len(create.interval.photos))
                                                 ELSE @,
                             !.alerts = @ + 1]
           ELSE /\ ok
                /\ create' = [create EXCEPT !.processingProgress = progress,
                                            !.interval.progress = progress]
    /\ UNCHANGED <<server, upload, captureVars>>

\* resetCapture.
Reset(c) ==
    [c EXCEPT !.capturedCount = 0, !.photos = <<>>, !.status = "scanning",
              !.processingProgress = 0, !.isCapturing = FALSE,
              !.interval = ProcessingEffect("scanning", <<>>)]

\* The back button of the processing screen or the close button of the
\* scanning screen.
resetCapture ==
    /\ create.resets < CreateResetLimit
    /\ create' = [Reset(create) EXCEPT !.resets = @ + 1]
    /\ UNCHANGED <<server, upload, captureVars>>

\* A button of the alert: both call resetCapture.
AlertButton ==
    /\ create.alerts > 0
    /\ create' = [Reset(create) EXCEPT !.alerts = @ - 1]
    /\ UNCHANGED <<server, upload, captureVars>>

CreateNext ==
    \/ capturePhoto
    \/ \E i \in 1..Len(create.captures) : DelayElapses(i)
    \/ \E i \in 1..Len(create.captures), ok \in BOOLEAN : CaptureCompletes(i, ok)
    \/ SwitchFires
    \/ \E ok \in BOOLEAN : IntervalFires(ok)
    \/ resetCapture
    \/ AlertButton

CreateInit == Init /\ pose = 0

CreateSpec == CreateInit /\ [][CreateNext]_vars

\* ------------------------------------------------------------------------
\* Properties
\* ------------------------------------------------------------------------
\* A capture begins in this step, started by the auto-capture effect.
AutoCaptureStarts ==
    /\ inflight' # inflight
    /\ inflight' # <<>>
    /\ inflight'[Len(inflight')] = [auto |-> TRUE, stale |-> FALSE]

\* C1: at most one takePictureAsync is outstanding at any time, and the flag
\* is up for as long as it is, so every trigger that arrives meanwhile is
\* dropped by the guards.
C1_SingleCaptureInFlight ==
    /\ Len(inflight) <= 1
    /\ (inflight # <<>>) => isSnapping

\* A capture is in flight at a moment where the shutter can be pressed and a
\* tick would fire the auto-capture but for the flag.
C1_Witness ==
    /\ Len(inflight) = 1
    /\ phase = "capturing" /\ startRef # NoStart /\ ~CentreCovered
    /\ AutoCaptureFires(phase, FALSE, Len(photos), sinceLast, rateRef, yawRef, pitchRef,
                        coverageGrid)

\* C2: while a capture begun before a resetAll or startCapture is in flight,
\* no step (its settling included) adds a photo to the list or marks a cell
\* of the grid.
C2_StaleCaptureDiscarded ==
    [][(inflight # <<>> /\ Head(inflight).stale)
         => (Len(photos') <= Len(photos) /\ coverageGrid' \subseteq coverageGrid)]_vars

\* C3: the coverage ratio drops, or a covered cell becomes uncovered, only in
\* a step that begins a new session (startCapture) or ends one (resetAll).
C3_CoverageMonotone ==
    [][(coverage' < coverage \/ ~(coverageGrid \subseteq coverageGrid'))
         => (startCapture \/ resetAll)]_vars

\* A session in which coverage has grown photo after photo, also across a
\* failed stitch (the Finish button has been available to get there).
C3_Witness ==
    /\ phase = "capturing" /\ Len(photos) > MIN_PHOTOS_FINISH
    /\ coverage > Cardinality(Footprint(photos[1].yaw, photos[1].pitch))
    /\ coverage = Cardinality(coverageGrid)

\* The precondition of C4: capturing, a photo taken, no capture in flight.
TickPre == phase = "capturing" /\ Len(photos) >= 1 /\ ~isSnapping /\ inflight = <<>>

\* The frontier and stability conditions of C4, for the current orientation.
FrontierAndStable ==
    /\ CoveredSamples(coverageGrid, yawRef, pitchRef) >= 1
    /\ UncoveredSamples(coverageGrid, yawRef, pitchRef) >= 2
    /\ rateRef.a < STABILITY_THRESHOLD /\ rateRef.b < STABILITY_THRESHOLD

C5_AutoCapturesCooldownApart ==
    [][AutoCaptureStarts => sinceAuto >= CAPTURE_COOLDOWN_MS]_vars

\* C6: auto-capture starts no capture on an empty photo list, and the capture
\* whose photo becomes the first of the list was started by the shutter.
C6_FirstPhotoManual ==
    [][/\ AutoCaptureStarts => photos' # <<>>
       /\ (photos = <<>> /\ photos' # <<>>) => (inflight # <<>> /\ ~Head(inflight).auto)]_vars

\* The transitions C7 lists.
ListedTransitions ==
    { <<"ready", "capturing">>, <<"capturing", "processing">>, <<"processing", "done">>,
      <<"processing", "capturing">>, <<"capturing", "ready">>, <<"processing", "ready">>,
      <<"done", "ready">> }

\* C7: the phase changes along the listed transitions only.
C7_PhaseTransitions ==
    [][phase' # phase => <<phase, phase'>> \in ListedTransitions]_vars

\* C8: phase processing only with at least MIN_PHOTOS_FINISH photos.
C8_ProcessingHasMinPhotos ==
    phase = "processing" => Len(photos) >= MIN_PHOTOS_FINISH

\* Capturing with the coverage target and the minimum photo count reached.
TargetReachedCapturing ==
    phase = "capturing" /\ ReachedTarget(coverage) /\ Len(photos) >= MIN_PHOTOS_FINISH

\* Processing with a stitch request issued, or back on the ready screen.
StitchIssuedOrReset ==
    (phase = "processing" /\ stitches # <<>>) \/ phase = "ready"

\* C9: from capturing with the coverage target and the minimum photo count
\* reached, the session gets to processing with a stitch request issued,
\* unless it is reset.
C9_AutoFinishEventually ==
    TargetReachedCapturing ~> StitchIssuedOrReset

\* Processing with a stitch request issued, on a session at the coverage target.
C9_Witness ==
    /\ phase = "processing" /\ stitches # <<>>
    /\ ReachedTarget(coverage) /\ Len(photos) >= MIN_PHOTOS_FINISH

\* C10: a failing stitch takes processing back to capturing with the photo
\* list, the grid and the coverage as they were when processing began, and
\* done is entered by a successful stitch only.
C10_StitchFailurePreserves ==
    [][/\ (\E i \in 1..Len(stitches) : StitchSettles(i, FALSE))
            => /\ phase = "processing" /\ phase' = "capturing"
               /\ photos' = stitches[1].photos
               /\ coverageGrid' = stitches[1].grid
               /\ coverage' = stitches[1].coverage
       /\ (phase' = "done" /\ phase # "done")
            => (\E i \in 1..Len(stitches) : StitchSettles(i, TRUE))]_vars

\* C11: at most one stitch request is outstanding at any time; handleStitch
\* is not started while an earlier call has not resolved.
C11_SingleStitchOutstanding == Len(stitches) <= 1

\* A stitch request is outstanding while an auto-finish timer is still pending.
C11_Witness == phase = "processing" /\ Len(stitches) = 1 /\ timers > 0

\* The photo list holds six photos at yaw 0, 60, 120, 180, 240, 300 and pitch 0.
SixEvenPhotos ==
    /\ Len(photos) = 6
    /\ \A i \in 1..6 : photos[i].yaw = 6000 * (i - 1) /\ photos[i].pitch = 0

\* C12: with six photos at yaw 0, 60, ..., 300 and pitch 0 in the list of a
\* capturing session, the coverage ratio is above TARGET_COVERAGE and the
\* automatic transition to processing is under way (its timer is pending).
C12_SixPhotosReachTarget ==
    (phase = "capturing" /\ SixEvenPhotos)
        => (coverage * 100 > TARGET_COVERAGE * TOTAL_CELLS /\ timers > 0)

\* A capture resolves and its photo joins a list that already has a photo.
LaterPhotoAdded == photos # <<>> /\ Len(photos') = Len(photos) + 1

\* C13: the footprint stamped for every photo after the first holds a cell
\* that was covered before and a cell that was not.
C13_PhotoOverlapsAndExtends ==
    [][LaterPhotoAdded =>
         LET new == photos'[Len(photos')]
         IN  /\ Footprint(new.yaw, new.pitch) \cap coverageGrid # {}
             /\ Footprint(new.yaw, new.pitch) \ coverageGrid # {}]_vars

\* C16: every photo of the list has yaw in [0, 360) and pitch in [-90, 90].
C16_PhotoAnglesInDomain ==
    \A i \in 1..Len(photos) :
        /\ 0 <= photos[i].yaw /\ photos[i].yaw < 36000
        /\ -9000 <= photos[i].pitch /\ photos[i].pitch <= 9000

\* The guides the current render computes.
GuidesNow == computeFrontierGuides(photos, coverageGrid, yawRef)

\* C17: no guide computeFrontierGuides returns has a covered cell, and with
\* an empty photo list it returns no guide.
C17_GuidesUncovered ==
    LET guides == GuidesNow
    IN  /\ \A i \in DOMAIN guides : ~GuideCellCovered(coverageGrid, guides[i])
        /\ (photos = <<>> => guides = <<>>)

\* Some probes of the last photo are covered and dropped, others are
\* returned, and the lattice adds guides of its own.
C17_Witness ==
    /\ photos # <<>>
    /\ Len(LocalGuides(photos[Len(photos)], coverageGrid)) \in 1..(Len(Probes) - 1)
    /\ Len(GuidesNow) > Len(LocalGuides(photos[Len(photos)], coverageGrid))
    /\ \E i \in 1..Len(Lattice) : GuideCellCovered(coverageGrid, Lattice[i])

\* The columns that hold a covered cell.
ColsOf(grid) == { i % GRID_COLS : i \in grid }
\* The rows that hold a covered cell.
RowsOf(grid) == { i \div GRID_COLS : i \in grid }

\* The run of columns, modulo GRID_COLS, from the column of the footprint's
\* first stepped point (yaw - PHOTO_H_SPAN/2) to that of its last.
BandCols(yaw) ==
    LET half == PHOTO_H_SPAN \div 2
        steps == (2 * half) \div CELL_SIZE
        left == ((yaw - half) % 36000) \div CELL_SIZE
        right == ((yaw - half + CELL_SIZE * steps) % 36000) \div CELL_SIZE
    IN  { (left + k) % GRID_COLS : k \in 0..((right - left) % GRID_COLS) }

ClampPitch(pitch) == Max(-9000, Min(9000, pitch))

\* The rows from that of the highest point of a stamp at the given pitch to
\* that of its lowest, after both are clamped to the poles.
RowSpan(pitch) ==
    LET half == PHOTO_V_SPAN \div 2
        top == (9000 - ClampPitch(pitch + half)) \div CELL_SIZE
        bottom == (9000 - ClampPitch(pitch - half)) \div CELL_SIZE
    IN  Max(0, Min(GRID_ROWS - 1, top)) .. Max(0, Min(GRID_ROWS - 1, bottom))

\* C15, indices: every covered index is in [0, TOTAL_CELLS), hence every
\* covered row in [0, GRID_ROWS).
C15_IndicesInGrid == coverageGrid \subseteq 0..(TOTAL_CELLS - 1)

\* C15, poles: the rows a stamp adds lie within the stamp's own span cut off
\* at the pole; nothing is marked at the other pole.
C15_PoleSkipped ==
    [][Len(photos') = Len(photos) + 1 =>
         RowsOf(coverageGrid' \ coverageGrid) \subseteq RowSpan(photos'[Len(photos')].pitch)]_vars

\* C15: indices stay in the grid, points beyond a pole are skipped, and a
\* stamp at a pitch beyond a pole marks exactly what the stamp at the clamped
\* pitch would mark.
C15_PitchClampedBeforeMarking ==
    [][Len(photos') = Len(photos) + 1 =>
         LET new == photos'[Len(photos')]
         IN  /\ coverageGrid' \subseteq 0..(TOTAL_CELLS - 1)
             /\ RowsOf(coverageGrid' \ coverageGrid) \subseteq RowSpan(new.pitch)
             /\ coverageGrid' = coverageGrid \cup Footprint(new.yaw, ClampPitch(new.pitch))]_vars

\* C18: a request whose whole-set stitch failed is answered with success and
\* an output image of exactly 2:1 produced by the row-grouped fallback.
C18_FallbackReturnsImage ==
    (server.pc = "answered" /\ server.whole = "failed")
        => /\ server.fallback
           /\ server.response.success
           /\ server.output # NoImage /\ server.output.w = 2 * server.output.h

\* C19: a request answered with success has a stored output image of
\* 4096 x 2048, twice as wide as high.
C19_SuccessIsTwoToOne ==
    (server.pc = "answered" /\ server.response.success)
        => /\ server.output # NoImage
           /\ server.output.w = target_w /\ server.output.h = target_h
           /\ server.output.w = 2 * server.output.h

\* The row-grouped fallback ran on a request with one orientation per photo.
FallbackRan ==
    /\ server.pc = "answered" /\ server.whole = "failed"
    /\ server.orientations # <<>>

\* The photos of a request whose pitch rounds to bucket b.
BucketMembers(b) ==
    { i \in DOMAIN server.orientations : PitchBucket(server.orientations[i]) = b }

\* C20: in the fallback every photo goes to a bucket that is a multiple of 30
\* degrees nearest to its pitch; every non-empty bucket has exactly one strip:
\* the photo for a single-photo bucket, the bucket's stitch when it succeeds,
\* a photo of the bucket when it fails; and the request succeeds whatever
\* buckets fail.
C20_RowFallbackStrips ==
    FallbackRan =>
        LET oris == server.orientations
            buckets == { PitchBucket(oris[i]) : i \in DOMAIN oris }
            strips == server.strips
        IN  /\ \A i \in DOMAIN oris :
                 /\ PitchBucket(oris[i]) % 3000 = 0
                 /\ Abs(oris[i].pitch - PitchBucket(oris[i])) <= 1500
            /\ Len(strips) = Cardinality(buckets)
            /\ \A b \in buckets : \E k \in DOMAIN strips : strips[k].bucket = b
            /\ \A k \in DOMAIN strips :
                 LET b == strips[k].bucket
                     n == Cardinality(BucketMembers(b))
                 IN  /\ n >= 1
                     /\ strips[k].kind =
                          (IF n = 1 THEN "photo"
                           ELSE IF b \in server.okBuckets THEN "stitch" ELSE "first")
                     /\ strips[k].kind = "stitch" => strips[k].image.id = BucketMembers(b)
                     /\ strips[k].kind \in {"photo", "first"}
                          => \E i \in BucketMembers(b) :
                                /\ strips[k].image.id = {i}
                                /\ \A j \in BucketMembers(b) : oris[i].yaw <= oris[j].yaw
            /\ server.response.success

\* The fallback ran with a single-photo bucket and a bucket whose stitch failed.
C20_Witness ==
    /\ FallbackRan
    /\ \E k \in DOMAIN server.strips : server.strips[k].kind = "photo"
    /\ \E k \in DOMAIN server.strips : server.strips[k].kind = "first"
    /\ server.response.success

\* The widest strip the fallback produced.
StripMaxW == MaxW([k \in DOMAIN server.strips |-> server.strips[k].image])

\* C21: when the row fallback ran, the stacked list holds the strips from top
\* to bottom in strictly descending bucket pitch, every stacked strip has the
\* width of the widest strip, and each keeps its aspect ratio: its height is
\* the strip's height times max_w / width, truncated.
C21_StackedDescendingEqualWidth ==
    FallbackRan =>
        LET strips == server.strips
            stacked == server.stacked
        IN  /\ Len(stacked) = Len(strips)
            /\ \A k, l \in DOMAIN strips : k < l => strips[k].bucket > strips[l].bucket
            /\ \A k \in DOMAIN strips :
                 /\ stacked[k].id = strips[k].image.id
                 /\ stacked[k].w = StripMaxW
                 /\ stacked[k].h = (strips[k].image.h * StripMaxW) \div strips[k].image.w
                 /\ stacked[k].h >= strips[k].image.h

\* The fallback stacked three rows of which at least one had to be widened.
C21_Witness ==
    /\ FallbackRan
    /\ Len(server.strips) >= 3
    /\ \E k \in DOMAIN server.strips : server.stacked[k] # server.strips[k].image
    /\ \E k \in DOMAIN server.strips : server.stacked[k] = server.strips[k].image

\* The generated script ran on the request's photos.
ScriptRan == server.pc = "answered" /\ server.whole # "none"

\* C22: the list handed to the stitcher is a permutation of all uploaded
\* photos; when the request carries orientations the list is in ascending
\* (pitch rounded to 30 degrees, yaw) order and every photo still carries
\* the orientation uploaded at its own position.
C22_SortedPermutationPaired ==
    ScriptRan =>
        LET sp == server.sortedPaths
            so == server.sortedOrientations
        IN  /\ Len(sp) = Len(server.files)
            /\ \A i \in DOMAIN server.files : \E k \in DOMAIN sp : sp[k] = server.files[i]
            /\ server.orientations # <<>> =>
                 /\ Len(so) = Len(sp)
                 /\ \A k \in DOMAIN so :
                      \E i \in DOMAIN server.orientations :
                          sp[k] = server.files[i] /\ so[k] = server.orientations[i]
                 /\ \A k \in DOMAIN so : k + 1 \in DOMAIN so =>
                      \/ PyRound(so[k].pitch, 3000) < PyRound(so[k + 1].pitch, 3000)
                      \/ /\ PyRound(so[k].pitch, 3000) = PyRound(so[k + 1].pitch, 3000)
                         /\ so[k].yaw <= so[k + 1].yaw

\* The request has been answered.
RequestFinished == server.pc = "answered"

\* C23: once a request is answered, neither its uploaded files nor its
\* generated script remain on disk.
C23_TemporariesDeleted ==
    RequestFinished => server.onDisk = {} /\ ~server.scriptOnDisk

\* Every POST to the stitch endpoint among the requests of a call comes after
\* a health probe of the same call that was answered ok.
ProbedFirst(requests) ==
    \A k \in DOMAIN requests :
        requests[k].request = "POST /api/stitch-panorama"
            => \E j \in 1..(k - 1) : requests[j] = Request("GET /api/health", "ok")

\* C24: no call, of handleStitch or of an upload function, has posted to the
\* stitch endpoint without a successful health probe earlier in the same
\* call; a call whose probe failed or timed out has made no POST.
C24_ProbeBeforeStitch ==
    /\ \A i \in DOMAIN stitches : ProbedFirst(stitches[i].requests)
    /\ ProbedFirst(upload.requests)

\* The request of the handleStitch call that this step makes.
IssuedStitch == stitches'[Len(stitches')]

StitchPending == stitches # <<>>

\* C26: every upload the session starts eventually settles, whether or not
\* the server answers: a pending stitch request does not stay pending forever.
C26_UploadEventuallyResolves == StitchPending ~> ~StitchPending

\* takePictureAsync rejects (or resolves without a uri) for a capture in flight.
CaptureFails == \E i \in 1..Len(inflight) : CaptureSettles(i, FALSE)

\* C27: a failed capture leaves the phase, the photo list, the coverage grid
\* and the coverage as they were and clears the capture-in-flight flag (it is
\* up again afterwards only when the render that follows starts an
\* auto-capture); with the flag down on the capture screen the guard of
\* captureFrame lets the next capture start.
C27_FailedCaptureKeepsSession ==
    [][CaptureFails =>
         /\ phase' = phase
         /\ photos' = photos
         /\ coverageGrid' = coverageGrid
         /\ coverage' = coverage
         /\ photoIdRef' = photoIdRef
         /\ isSnapping' => /\ Len(inflight') = Len(inflight)
                           /\ inflight'[Len(inflight')].auto
         /\ ~isSnapping' => Len(inflight') = Len(inflight) - 1
         /\ (~isSnapping' /\ CaptureScreen(phase', resultUri'))
              => CaptureFrameRuns(CaptureScreen(phase', resultUri'), isSnapping')]_vars

\* The shutter starts a capture.
ShutterStartsCapture == ShutterPress /\ Len(inflight') = Len(inflight) + 1

\* The first capture of a session has failed (a capture was started since
\* Start and none is in flight, yet there is no photo), and the shutter can
\* start another one.
C27_Witness ==
    /\ phase = "capturing"
    /\ photos = <<>>
    /\ inflight = <<>>
    /\ ~isSnapping
    /\ sinceLast < SinceCap
    /\ ENABLED ShutterStartsCapture

\* C28: handleRecalibrate clears the orientation reference (and zeroes the
\* current yaw, pitch and roll readings) and leaves the coverage grid, the
\* coverage, the photo list, the phase and everything else as they were; the
\* first rotation sample after the reference was cleared reads yaw 0.
C28_RecalibrateFrame ==
    [][/\ handleRecalibrate =>
            /\ startRef' = NoStart
            /\ coverageGrid' = coverageGrid
            /\ coverage' = coverage
            /\ photos' = photos
            /\ phase' = phase
            /\ UNCHANGED <<isSnapping, resultUri, inflight, timers, stitches, photoIdRef,
                           sinceLast, sinceAuto>>
       /\ (startRef = NoStart /\ startRef' # NoStart) => yawRef' = 0]_vars

\* Recalibrated with a photo taken and cells covered: the reference is
\* cleared, the readings are zero, the photo and the coverage are still there.
C28_Witness ==
    /\ phase = "capturing"
    /\ startRef = NoStart
    /\ Len(photos) = 1
    /\ photos[1].pitch # 0
    /\ yawRef = 0 /\ pitchRef = 0
    /\ coverage > 0

NearInBoth(g, c, inclusive) ==
    IF inclusive
    THEN Abs(angleDelta(g.yaw, c.yaw)) <= 3000 /\ Abs(g.pitch - c.pitch) <= 3000
    ELSE Abs(angleDelta(g.yaw, c.yaw)) < 3000 /\ Abs(g.pitch - c.pitch) < 3000

\* The guides of the current render are the probes of the last photo whose
\* cell is uncovered, followed by exactly those lattice points whose cell is
\* uncovered and which no guide before them in the list is near to.
GuidesFollowRule(inclusive) ==
    photos # <<>> =>
        LET guides == GuidesNow
            lastP == photos[Len(photos)]
            probeGuides == [i \in 1..Len(Probes) |-> ProbeGuide(lastP, Probes[i])]
            nLocal == Cardinality({ i \in 1..Len(Probes) :
                                      ~GuideCellCovered(coverageGrid, probeGuides[i]) })
            Local == { guides[k] : k \in 1..Min(nLocal, Len(guides)) }
            InLattice(c) == \E k \in (nLocal + 1)..Len(guides) :
                               guides[k].yaw = c.yaw /\ guides[k].pitch = c.pitch
            Before(i) == { [yaw |-> g.yaw, pitch |-> g.pitch] : g \in Local } \cup
                         { Lattice[j] : j \in { m \in 1..(i - 1) : InLattice(Lattice[m]) } }
        IN  /\ \A i \in 1..Len(Probes) :
                 probeGuides[i] \in Local <=> ~GuideCellCovered(coverageGrid, probeGuides[i])
            /\ \A i \in 1..Len(Lattice) :
                 InLattice(Lattice[i]) <=>
                    /\ ~GuideCellCovered(coverageGrid, Lattice[i])
                    /\ ~\E g \in Before(i) : NearInBoth(g, Lattice[i], inclusive)
            /\ Len(guides) = nLocal + Cardinality({ i \in 1..Len(Lattice) : InLattice(Lattice[i]) })

\* C30 as stated, reading "within 30 degrees" as "at most 30 degrees away".
C30_GuidesWithinThirty == GuidesFollowRule(TRUE)

\* C30: a probe of the last photo is a guide iff its cell is uncovered; a
\* lattice direction is a guide iff its cell is uncovered and no guide already
\* in the list is closer than 30 degrees to it in both yaw and pitch (a guide
\* exactly 30 degrees away does not suppress it).
C30_GuidesCloserThanThirty == GuidesFollowRule(FALSE)

\* Two lattice directions exactly 30 degrees apart in pitch are both guides,
\* another uncovered lattice direction is left out because a guide is near
\* it, and a probe of the last photo is dropped because its cell is covered.
C30_Witness ==
    /\ photos # <<>>
    /\ \E i, j \in 1..Len(GuidesNow) :
          /\ GuidesNow[i].yaw = GuidesNow[j].yaw
          /\ GuidesNow[i].pitch - GuidesNow[j].pitch = 3000
    /\ \E i \in 1..Len(Lattice) :
          /\ ~GuideCellCovered(coverageGrid, Lattice[i])
          /\ \A k \in 1..Len(GuidesNow) :
                GuidesNow[k].yaw # Lattice[i].yaw \/ GuidesNow[k].pitch # Lattice[i].pitch
    /\ \E i \in 1..Len(Probes) :
          GuideCellCovered(coverageGrid, ProbeGuide(photos[Len(photos)], Probes[i]))

\* Every probe of the last photo falls in a covered cell.
AllProbesCovered ==
    /\ photos # <<>>
    /\ \A i \in 1..Len(Probes) :
          GuideCellCovered(coverageGrid, ProbeGuide(photos[Len(photos)], Probes[i]))

\* Some direction of the global lattice falls in an uncovered cell.
LatticeUncovered == \E i \in 1..Len(Lattice) : ~GuideCellCovered(coverageGrid, Lattice[i])

\* C31: with at least one photo and an uncovered lattice direction,
\* computeFrontierGuides returns at least one guide, whether or not the
\* probes of the last photo are all covered.
C31_LatticeGivesGuide == (photos # <<>> /\ LatticeUncovered) => GuidesNow # <<>>

\* All eight probes of the last photo are covered, the lattice has uncovered
\* directions, and guides are returned for them.
C31_Witness == AllProbesCovered /\ LatticeUncovered /\ GuidesNow # <<>>

\* The raw heading of the rotation sample the device is giving.
RawAlpha == Path(pose).alpha

\* C32: startCapture, resetAll and handleRecalibrate clear the reference; a
\* rotation sample arriving with no reference becomes the reference and reads
\* yaw 0; a sample arriving with a reference leaves it as it is and reads the
\* one yaw in [0, 360) that differs from reference minus raw heading by whole
\* turns.
C32_YawFromReference ==
    [][/\ (startCapture \/ resetAll \/ handleRecalibrate) => startRef' = NoStart
       /\ DeviceMotionSample =>
            /\ startRef = NoStart => (startRef'.alpha = RawAlpha' /\ yawRef' = 0)
            /\ startRef # NoStart => startRef' = startRef
            /\ yawRef' >= 0 /\ yawRef' < 36000
            /\ (yawRef' + RawAlpha' - startRef'.alpha) % 36000 = 0]_vars

\* The reference was taken again at a heading other than the route's first
\* (after a recalibration or a new start), and a later sample reads a yaw
\* that is not 0 against it.
C32_Witness ==
    /\ startRef # NoStart
    /\ startRef.alpha # Path(RouteStart(pose)).alpha
    /\ RawAlpha # startRef.alpha
    /\ yawRef = (startRef.alpha - RawAlpha) % 36000
    /\ yawRef # 0

\* The cells stamped by the photos of the list.
PhotosFootprint == UNION { Footprint(photos[i].yaw, photos[i].pitch) : i \in 1..Len(photos) }

\* A step keeps the grid equal to PhotosFootprint: it leaves list, grid and
\* coverage alone, or empties all three, or appends one photo, adds that
\* photo's footprint to the grid and recounts.
KeepsGridInStep ==
    \/ UNCHANGED <<photos, coverageGrid, coverage>>
    \/ photos' = <<>> /\ coverageGrid' = {} /\ coverage' = 0
    \/ /\ Len(photos') = Len(photos) + 1
       /\ SubSeq(photos', 1, Len(photos)) = photos
       /\ coverageGrid' = coverageGrid \cup Footprint(photos'[Len(photos')].yaw,
                                                       photos'[Len(photos')].pitch)
       /\ coverage' = Cardinality(coverageGrid')

\* C33: the coverage grid is the union of the footprints of the photos in the
\* list, the coverage shown is the number of covered cells (over TOTAL_CELLS),
\* and it is 0 when the list is empty.  Stated inductively: it holds at the
\* start, with everything empty, and every step keeps it.
C33_GridIsUnionOfFootprints ==
    /\ photos = <<>> /\ coverageGrid = PhotosFootprint /\ coverage = 0
    /\ [][KeepsGridInStep]_vars

\* Two photos with overlapping footprints are in the list: the grid holds
\* more than either footprint and fewer cells than the two together.
C33_Witness ==
    /\ Len(photos) >= 2
    /\ coverageGrid = PhotosFootprint
    /\ coverage > Cardinality(Footprint(photos[1].yaw, photos[1].pitch))
    /\ coverage < Cardinality(Footprint(photos[1].yaw, photos[1].pitch))
                  + Cardinality(Footprint(photos[2].yaw, photos[2].pitch))
    /\ coverage = Cardinality(coverageGrid)

\* A stitch attempt fails on a session at the coverage target with the minimum
\* photo count.
StitchFailsAtTarget ==
    /\ \E i \in 1..Len(stitches) : StitchSettles(i, FALSE)
    /\ ReachedTarget(coverage) /\ Len(photos) >= MIN_PHOTOS_FINISH

\* The auto-finish timer fires on the capture screen of a session with the
\* minimum photo count.
TimerFiresCapturing ==
    AutoFinishTimer /\ phase = "capturing" /\ Len(photos) >= MIN_PHOTOS_FINISH

TimerPendingCapturing == phase = "capturing" /\ timers > 0
InProcessing == phase = "processing"

\* C34: a stitch attempt that fails at the coverage target returns to
\* capturing with an auto-finish timer scheduled; that timer, firing on the
\* capture screen, enters processing and issues a new stitch request; and a
\* scheduled timer does fire, so the round is gone through again each time
\* the request fails.
C34_FailedStitchRefires ==
    /\ [][StitchFailsAtTarget => (phase' = "capturing" /\ timers' > 0)]_vars
    /\ [][TimerFiresCapturing =>
            (phase' = "processing" /\ Len(stitches') = Len(stitches) + 1)]_vars
    /\ TimerPendingCapturing ~> InProcessing

\* Processing at the coverage target with a stitch request out whose failure
\* schedules the auto-finish timer again.
C34_Witness ==
    /\ phase = "processing" /\ stitches # <<>> /\ timers = 0
    /\ ReachedTarget(coverage) /\ Len(photos) >= MIN_PHOTOS_FINISH
    /\ ENABLED (StitchFailsAtTarget /\ timers' > 0)

\* C35: when the coverage first reaches TARGET_COVERAGE, the photo list holds
\* no more photos than the stitch endpoint accepts in one request.
C35_AutoFinishWithinLimit ==
    [][(~ReachedTarget(coverage) /\ ReachedTarget(coverage')) => Len(photos') <= maxCount]_vars

\* C36: while the phase is processing the photo list and the coverage grid do
\* not change; a capture still in flight when processing began adds nothing.
C36_ProcessingFreezesPhotos ==
    [][(phase = "processing" /\ phase' = "processing")
          => (photos' = photos /\ coverageGrid' = coverageGrid)]_vars

\* C37: on the 8-photo capture screen, status is processing only while the
\* photo list holds exactly TOTAL_PHOTOS photos, and every panorama saved
\* holds TOTAL_PHOTOS photos.
C37_ProcessingHasAllPhotos ==
    /\ create.status = "processing" => Len(create.photos) = TOTAL_PHOTOS
    /\ \A k \in 1..Len(create.panoramas) : create.panoramas[k] = TOTAL_PHOTOS

====
